---- MODULE Spec2Model ----
(***************************************************************************)
(* Model of the spiral-token Solana program                                *)
(* (src/solana/programs/spiral-token/src/lib.rs).                          *)
(*                                                                         *)
(* State: the MintData account, the NonceRegistry accounts, the            *)
(* TrustedRemote accounts (one PDA per chain id), the balances held by the *)
(* SPL token program (the external ledger), and the log of emitted events. *)
(* Every instruction handler is an operator that runs the handler's        *)
(* statements in source order on a working copy of the accounts and        *)
(* returns the working copy together with the result; the action built on  *)
(* it commits the working copy only when the handler returned Ok, as the   *)
(* runtime does for a transaction.                                         *)
(***************************************************************************)
EXTENDS Integers, Sequences, FiniteSets, TLC

(* ---- bounds of the model ---- *)
\* u64 is modelled as 0..U64_MAX; checked arithmetic rejects beyond it.
U64_MAX == 7
\* stands for the cap 1_000_000_000_000_000_000 of initialize_mint (line 17)
MAX_SUPPLY_CAP == 3
\* stands for NonceRegistry::MAX_NONCES = 1000 (line 360)
MAX_NONCES == 2
\* the event log is cut off at this length
MaxEvents == 2

(* ---- program constants ---- *)
SOLANA_CHAIN_ID == 102
MAX_DECIMALS == 18

(* ---- value sets ---- *)
None == "None"
\* a TrustedRemote PDA that has not been created
NoRemote == [exists |-> FALSE, chain_id |-> 0, remote_address |-> 0, address_length |-> 0]
DefaultPubkey == 0
Pubkeys == 0..2
Signers == Pubkeys \ {DefaultPubkey}
TokenAccounts == {"tokA", "tokB"}
RegistryAccounts == {"regA", "regB"}
ChainIds == 0..2

(* ---- argument sets ---- *)
\* The instructions are called with arguments drawn from a record of sets.
\* Several such records are used, each wide in the arguments one family of
\* properties is about and narrow in the others.
SupplyArgs ==
  [init_authority |-> {1}, authority |-> Signers,
   decimals |-> {8, MAX_DECIMALS + 1},
   max_supply |-> {0, MAX_SUPPLY_CAP - 1, MAX_SUPPLY_CAP + 1},
   amount |-> {0, 1, 2, U64_MAX}, account |-> TokenAccounts, to |-> {"tokA"},
   registry |-> {"regA"}, nonce |-> {1, 2}, out_nonce |-> {1},
   chain |-> {1}, source_chain |-> {1}, dest |-> {0, 1}, recipient |-> {1}, sender |-> {1},
   address_length |-> {20}, remote_address |-> {7}, timestamp |-> {1},
   fault |-> BOOLEAN]

NonceArgs ==
  [init_authority |-> {1}, authority |-> {1},
   decimals |-> {8}, max_supply |-> {MAX_SUPPLY_CAP},
   amount |-> {1, 2}, account |-> {"tokA"}, to |-> {"tokA"},
   registry |-> RegistryAccounts, nonce |-> 1..(MAX_NONCES + 1), out_nonce |-> {1},
   chain |-> {0}, source_chain |-> {1}, dest |-> {1}, recipient |-> {1}, sender |-> {1},
   address_length |-> {20}, remote_address |-> {7}, timestamp |-> {1},
   fault |-> BOOLEAN]

RemoteArgs ==
  [init_authority |-> Signers, authority |-> Signers,
   decimals |-> {8}, max_supply |-> {MAX_SUPPLY_CAP - 1},
   amount |-> {1}, account |-> {"tokA"}, to |-> {"tokA"},
   registry |-> {"regA"}, nonce |-> {1}, out_nonce |-> {1},
   chain |-> ChainIds, source_chain |-> {1, 2}, dest |-> {1}, recipient |-> {1}, sender |-> Pubkeys,
   address_length |-> {0, 20, 32}, remote_address |-> {1}, timestamp |-> {1},
   fault |-> {FALSE}]

\* Arguments for the runs in which the ledger is also used directly.
LedgerArgs ==
  [init_authority |-> {1}, authority |-> {1},
   decimals |-> {8}, max_supply |-> {MAX_SUPPLY_CAP - 1},
   amount |-> {1, 2}, account |-> {"tokA"}, to |-> {"tokA"},
   registry |-> {"regA"}, nonce |-> {1, 2}, out_nonce |-> {1},
   chain |-> {1}, source_chain |-> {1}, dest |-> {1}, recipient |-> {1}, sender |-> {1},
   address_length |-> {20}, remote_address |-> {7}, timestamp |-> {1},
   fault |-> BOOLEAN]

VARIABLES mint_data, nonce_registry, trusted_remote, balances, events, last

vars == <<mint_data, nonce_registry, trusted_remote, balances, events, last>>

\* The accounts and the log as one record: what a handler works on. steps
\* lists, in order, the state-changing calls the handler has made so far.
Accounts ==
  [mint_data |-> mint_data, nonce_registry |-> nonce_registry,
   trusted_remote |-> trusted_remote, balances |-> balances, events |-> events,
   steps |-> <<>>]

(* ---- helpers ---- *)
RECURSIVE SumSeq(_)
SumSeq(s) == IF s = <<>> THEN 0 ELSE Head(s) + SumSeq(Tail(s))

Range(s) == {s[i] : i \in 1..Len(s)}

\* u64::checked_add / checked_sub: an Option<u64>
checked_add(a, b) ==
  IF a + b > U64_MAX THEN [is_some |-> FALSE, val |-> 0]
  ELSE [is_some |-> TRUE, val |-> a + b]

checked_sub_saturating(a, b) ==
  IF a < b THEN [is_some |-> TRUE, val |-> 0]
  ELSE [is_some |-> TRUE, val |-> a - b]

checked_sub(a, b) ==
  IF a < b THEN [is_some |-> FALSE, val |-> 0]
  ELSE [is_some |-> TRUE, val |-> a - b]

\* A handler's return: the result and the working copy of the accounts at
\* the point of return.
Ret(result, acc) == [result |-> result, acc |-> acc]

\* The runtime keeps the account changes of an instruction only when the
\* handler returned Ok (Anchor writes accounts back on exit, and a failed
\* transaction is reverted as a whole).
CommitDropsNothing(before, r) == r.acc
Commit(before, r) == IF r.result = "Ok" THEN r.acc ELSE before

(* ---- the external ledger (SPL token program), reached by CPI ---- *)
\* token::mint_to: credits the account; fault is an injected ledger failure.
token_mint_to(bal, to, amount, fault) ==
  IF fault \/ bal[to] + amount > U64_MAX
  THEN [ok |-> FALSE, bal |-> bal]
  ELSE [ok |-> TRUE, bal |-> [bal EXCEPT ![to] = @ + amount]]

\* token::burn: debits the account; fails on an insufficient balance.
token_burn(bal, from, amount, fault) ==
  IF fault \/ bal[from] < amount
  THEN [ok |-> FALSE, bal |-> bal]
  ELSE [ok |-> TRUE, bal |-> [bal EXCEPT ![from] = @ - amount]]

\* The `?` on a CPI result: the handler returns the ledger's error.
ledger_call_failed_ignored(cpi) == FALSE
ledger_call_failed(cpi) == ~cpi.ok

(* ---- NonceRegistry ---- *)
is_nonce_used_never(used_nonces, nonce) == FALSE
is_nonce_used(used_nonces, nonce) == nonce \in Range(used_nonces)

\* Result of mark_nonce_used: the error, or the new vector.
mark_nonce_used_no_push(used_nonces, nonce) ==
  IF is_nonce_used(used_nonces, nonce)
  THEN [err |-> "NonceAlreadyUsed", used_nonces |-> used_nonces]
  ELSE IF ~(Len(used_nonces) < MAX_NONCES)
  THEN [err |-> "NonceRegistryFull", used_nonces |-> used_nonces]
  ELSE [err |-> None, used_nonces |-> used_nonces]

mark_nonce_used(used_nonces, nonce) ==
  IF is_nonce_used(used_nonces, nonce)
  THEN [err |-> "NonceAlreadyUsed", used_nonces |-> used_nonces]
  ELSE IF ~(Len(used_nonces) < MAX_NONCES)
  THEN [err |-> "NonceRegistryFull", used_nonces |-> used_nonces]
  ELSE [err |-> None, used_nonces |-> Append(used_nonces, nonce)]

(* ---- checks shared by the handlers ---- *)
\* require!(ctx.accounts.authority.key() == mint_data.authority, ...)
authority_ok_anyone(md, authority) == TRUE
authority_ok(md, authority) == authority = md.authority

\* require!(current_supply.checked_add(amount).is_some() &&
\*          current_supply + amount <= max_supply, ExceedsMaxSupply)
within_max_supply_strict(md, amount) ==
  /\ checked_add(md.current_supply, amount).is_some
  /\ md.current_supply + amount < md.max_supply

within_max_supply_overflow_only(md, amount) ==
  checked_add(md.current_supply, amount).is_some

within_max_supply(md, amount) ==
  /\ checked_add(md.current_supply, amount).is_some
  /\ md.current_supply + amount <= md.max_supply

\* require!(address_length == 20 || address_length == 32, InvalidRecipient)
address_length_ok_any(address_length) == TRUE
address_length_ok(address_length) == address_length = 20 \/ address_length = 32

\* The optional trusted-remote validation: when an account is passed its
\* chain_id must equal source_chain; sender is not compared with anything.
trusted_remote_ok_unchecked(remote, source_chain, sender) == TRUE

trusted_remote_ok_sender(remote, source_chain, sender) ==
  ~remote.exists \/ (remote.chain_id = source_chain /\ remote.remote_address = sender)

trusted_remote_ok(remote, source_chain, sender) ==
  ~remote.exists \/ remote.chain_id = source_chain

(* ---- events ---- *)
TokensMinted_stale(recipient, amount, new_supply) ==
  [type |-> "TokensMinted", recipient |-> recipient, amount |-> amount,
   new_supply |-> new_supply - amount]

TokensMinted(recipient, amount, new_supply) ==
  [type |-> "TokensMinted", recipient |-> recipient, amount |-> amount,
   new_supply |-> new_supply]

CrossChainTransferInitiated_swapped(source_chain, destination_chain, recipient, amount, nonce, timestamp) ==
  [type |-> "CrossChainTransferInitiated", source_chain |-> destination_chain,
   destination_chain |-> source_chain, recipient |-> recipient,
   amount |-> amount, nonce |-> nonce, timestamp |-> timestamp]

CrossChainTransferInitiated(source_chain, destination_chain, recipient, amount, nonce, timestamp) ==
  [type |-> "CrossChainTransferInitiated", source_chain |-> source_chain,
   destination_chain |-> destination_chain, recipient |-> recipient,
   amount |-> amount, nonce |-> nonce, timestamp |-> timestamp]

CrossChainTransferReceived(source_chain, sender, recipient, amount, nonce) ==
  [type |-> "CrossChainTransferReceived", source_chain |-> source_chain,
   sender |-> sender, recipient |-> recipient, amount |-> amount,
   nonce |-> nonce]

(* ---- instruction handlers ---- *)
initialize_mint(acc, authority, decimals, max_supply, fault) ==
  IF ~(decimals <= MAX_DECIMALS) THEN Ret("InvalidDecimals", acc)
  ELSE IF ~(max_supply > 0) THEN Ret("InvalidMaxSupply", acc)
  ELSE IF ~(max_supply <= MAX_SUPPLY_CAP) THEN Ret("InvalidMaxSupply", acc)
  ELSE IF fault THEN Ret("LedgerError", acc)
  ELSE Ret("Ok", [acc EXCEPT !.mint_data =
         [initialized |-> TRUE, max_supply |-> max_supply, current_supply |-> 0,
          authority |-> authority, decimals |-> decimals]])

mint_tokens(acc, authority, recipient, amount, fault) ==
  IF ~(amount > 0) THEN Ret("InvalidAmount", acc)
  ELSE IF ~authority_ok(acc.mint_data, authority) THEN Ret("InvalidAuthority", acc)
  ELSE IF ~within_max_supply(acc.mint_data, amount) THEN Ret("ExceedsMaxSupply", acc)
  ELSE
    LET cpi == token_mint_to(acc.balances, recipient, amount, fault)
        acc1 == [acc EXCEPT !.balances = cpi.bal, !.steps = Append(@, "mint_to")]
        sum == checked_add(acc.mint_data.current_supply, amount)
    IN  IF ledger_call_failed(cpi) THEN Ret("LedgerError", acc1)
        ELSE IF ~sum.is_some THEN Ret("SupplyOverflow", acc1)
        ELSE Ret("Ok", [acc1 EXCEPT
               !.mint_data.current_supply = sum.val,
               !.events = Append(@, TokensMinted(recipient, amount, sum.val))])

cross_chain_transfer(acc, authority, sender, destination_chain, recipient, amount, nonce, timestamp, fault) ==
  IF ~(amount > 0) THEN Ret("InvalidAmount", acc)
  ELSE IF ~(recipient # DefaultPubkey) THEN Ret("InvalidRecipient", acc)
  ELSE IF ~(destination_chain > 0) THEN Ret("InvalidChainId", acc)
  ELSE IF ~authority_ok(acc.mint_data, authority) THEN Ret("InvalidAuthority", acc)
  ELSE
    LET cpi == token_burn(acc.balances, sender, amount, fault)
        acc1 == [acc EXCEPT !.balances = cpi.bal, !.steps = Append(@, "burn")]
        diff == checked_sub(acc.mint_data.current_supply, amount)
    IN  IF ledger_call_failed(cpi) THEN Ret("LedgerError", acc1)
        ELSE IF ~diff.is_some THEN Ret("SupplyUnderflow", acc1)
        ELSE Ret("Ok", [acc1 EXCEPT
               !.mint_data.current_supply = diff.val,
               !.events = Append(@, CrossChainTransferInitiated(
                   SOLANA_CHAIN_ID, destination_chain, recipient, amount, nonce, timestamp))])

\* The trusted_remote account is the PDA of chain_id, created by
\* init_if_needed (zeroed) before the handler body runs.
set_trusted_remote(acc, authority, chain_id, remote_address, address_length) ==
  LET acc0 == IF acc.trusted_remote[chain_id].exists THEN acc
              ELSE [acc EXCEPT !.trusted_remote[chain_id] = [NoRemote EXCEPT !.exists = TRUE],
                               !.steps = Append(@, "init_trusted_remote")]
  IN  IF ~(chain_id > 0) THEN Ret("InvalidChainId", acc0)
      ELSE IF ~address_length_ok(address_length) THEN Ret("InvalidRecipient", acc0)
      ELSE IF ~authority_ok(acc0.mint_data, authority) THEN Ret("InvalidAuthority", acc0)
      ELSE Ret("Ok", [acc0 EXCEPT !.trusted_remote[chain_id] =
             [exists |-> TRUE, chain_id |-> chain_id,
              remote_address |-> remote_address, address_length |-> address_length]])

\* registry is the NonceRegistry account passed in; remote is the optional
\* TrustedRemote account passed in (NoRemote when none is passed).
receive_cross_chain_transfer(acc, authority, registry, remote, to, source_chain, sender, recipient, amount, nonce, fault) ==
  IF ~(amount > 0) THEN Ret("InvalidAmount", acc)
  ELSE IF ~(recipient # DefaultPubkey) THEN Ret("InvalidRecipient", acc)
  ELSE IF ~(source_chain > 0) THEN Ret("InvalidChainId", acc)
  ELSE IF ~(sender # DefaultPubkey) THEN Ret("InvalidSender", acc)
  ELSE IF ~authority_ok(acc.mint_data, authority) THEN Ret("InvalidAuthority", acc)
  ELSE IF ~trusted_remote_ok(remote, source_chain, sender) THEN Ret("InvalidChainId", acc)
  ELSE IF ~(~is_nonce_used(acc.nonce_registry[registry], nonce)) THEN Ret("NonceAlreadyUsed", acc)
  ELSE
    LET mark == mark_nonce_used(acc.nonce_registry[registry], nonce)
        acc1 == [acc EXCEPT !.nonce_registry[registry] = mark.used_nonces,
                            !.steps = Append(@, "mark_nonce_used")]
    IN  IF mark.err # None THEN Ret(mark.err, acc)
        ELSE IF ~within_max_supply(acc1.mint_data, amount) THEN Ret("ExceedsMaxSupply", acc1)
        ELSE
          LET cpi == token_mint_to(acc1.balances, to, amount, fault)
              acc2 == [acc1 EXCEPT !.balances = cpi.bal, !.steps = Append(@, "mint_to")]
              sum == checked_add(acc1.mint_data.current_supply, amount)
          IN  IF ledger_call_failed(cpi) THEN Ret("LedgerError", acc2)
              ELSE IF ~sum.is_some THEN Ret("SupplyOverflow", acc2)
              ELSE Ret("Ok", [acc2 EXCEPT
                     !.mint_data.current_supply = sum.val,
                     !.events = Append(@, CrossChainTransferReceived(
                         source_chain, sender, recipient, amount, nonce))])

(* ---- the instructions as the runtime executes them ---- *)
\* Each yields [result, acc]: the handler's result and the accounts after
\* the instruction.
Exec(acc, r) == Ret(r.result, Commit(acc, r))

(* ---- actions: one per instruction, with arguments from A ---- *)
\* r is a handler's return on Accounts. An instruction that emits an event
\* runs only while the log has room.
Install(op, r) ==
  LET acc == Commit(Accounts, r) IN
  /\ Len(acc.events) <= MaxEvents
  /\ mint_data' = acc.mint_data
  /\ nonce_registry' = acc.nonce_registry
  /\ trusted_remote' = acc.trusted_remote
  /\ balances' = acc.balances
  /\ events' = acc.events
  /\ last' = [op |-> op, result |-> r.result, steps |-> r.acc.steps]

\* mint_data is an `init` account: the instruction is rejected when the
\* account exists already.
init_account_free_always(md) == TRUE
init_account_free(md) == ~md.initialized

InitializeMint(A) ==
  \E authority \in A.init_authority, decimals \in A.decimals,
     max_supply \in A.max_supply, fault \in A.fault :
    IF ~init_account_free(mint_data)
    THEN Install("initialize_mint", Ret("AccountAlreadyInUse", Accounts))
    ELSE Install("initialize_mint",
                 initialize_mint(Accounts, authority, decimals, max_supply, fault))

MintTokens(A) ==
  /\ mint_data.initialized
  /\ \E authority \in A.authority, recipient \in A.account,
        amount \in A.amount, fault \in A.fault :
       Install("mint_tokens", mint_tokens(Accounts, authority, recipient, amount, fault))

CrossChainTransfer(A) ==
  /\ mint_data.initialized
  /\ \E authority \in A.authority, sender \in A.account,
        destination_chain \in A.dest, recipient \in A.recipient, amount \in A.amount,
        nonce \in A.out_nonce, timestamp \in A.timestamp, fault \in A.fault :
       Install("cross_chain_transfer",
               cross_chain_transfer(Accounts, authority, sender, destination_chain,
                                    recipient, amount, nonce, timestamp, fault))

SetTrustedRemote(A) ==
  /\ mint_data.initialized
  /\ \E authority \in A.authority, chain_id \in A.chain,
        remote_address \in A.remote_address, address_length \in A.address_length :
       Install("set_trusted_remote",
               set_trusted_remote(Accounts, authority, chain_id, remote_address, address_length))

\* The TrustedRemote accounts a caller can pass: none, or any that exists.
RemoteAccounts == {NoRemote} \cup {trusted_remote[c] : c \in ChainIds}

ReceiveCrossChainTransfer(A) ==
  /\ mint_data.initialized
  /\ \E authority \in A.authority, registry \in A.registry, remote \in RemoteAccounts,
        to \in A.to, source_chain \in A.source_chain, sender \in A.sender,
        recipient \in A.recipient, amount \in A.amount, nonce \in A.nonce,
        fault \in A.fault :
       Install("receive_cross_chain_transfer",
               receive_cross_chain_transfer(Accounts, authority, registry, remote, to,
                                            source_chain, sender, recipient, amount, nonce, fault))

\* The mint's authority on the ledger is the authority's own key
\* (mint::authority = authority), so the authority can also mint on the
\* ledger directly, without this program: balances change, mint_data and
\* the event log do not.
LedgerMintTo(A) ==
  /\ mint_data.initialized
  /\ \E to \in A.account, amount \in A.amount :
       LET cpi == token_mint_to(balances, to, amount, FALSE) IN
       /\ cpi.ok
       /\ balances' = cpi.bal
       /\ last' = [op |-> "ledger_mint_to", result |-> "Ok", steps |-> <<>>]
       /\ UNCHANGED <<mint_data, nonce_registry, trusted_remote, events>>

Init ==
  /\ mint_data = [initialized |-> FALSE, max_supply |-> 0, current_supply |-> 0,
                  authority |-> DefaultPubkey, decimals |-> 0]
  /\ nonce_registry = [a \in RegistryAccounts |-> <<>>]
  /\ trusted_remote = [c \in ChainIds |-> NoRemote]
  /\ balances = [a \in TokenAccounts |-> 0]
  /\ events = <<>>
  /\ last = [op |-> "none", result |-> "none", steps |-> <<>>]

Next ==
  \/ InitializeMint(SupplyArgs)
  \/ MintTokens(SupplyArgs)
  \/ CrossChainTransfer(SupplyArgs)
  \/ SetTrustedRemote(SupplyArgs)
  \/ ReceiveCrossChainTransfer(SupplyArgs)

Spec == Init /\ [][Next]_vars

NextNonce ==
  \/ InitializeMint(NonceArgs)
  \/ MintTokens(NonceArgs)
  \/ CrossChainTransfer(NonceArgs)
  \/ SetTrustedRemote(NonceArgs)
  \/ ReceiveCrossChainTransfer(NonceArgs)

SpecNonce == Init /\ [][NextNonce]_vars

NextRemote ==
  \/ InitializeMint(RemoteArgs)
  \/ MintTokens(RemoteArgs)
  \/ CrossChainTransfer(RemoteArgs)
  \/ SetTrustedRemote(RemoteArgs)
  \/ ReceiveCrossChainTransfer(RemoteArgs)

SpecRemote == Init /\ [][NextRemote]_vars

NextLedger ==
  \/ InitializeMint(LedgerArgs)
  \/ MintTokens(LedgerArgs)
  \/ CrossChainTransfer(LedgerArgs)
  \/ SetTrustedRemote(LedgerArgs)
  \/ ReceiveCrossChainTransfer(LedgerArgs)
  \/ LedgerMintTo(LedgerArgs)

SpecLedger == Init /\ [][NextLedger]_vars

(***************************************************************************)
(* Properties.  A property about what an instruction does is stated over   *)
(* the instruction's outcome, Exec(Accounts, handler(Accounts, args)), in  *)
(* every reachable state and for every argument of the sets below; the    *)
(* actions install exactly that outcome.                                   *)
(***************************************************************************)
\* Argument values the properties range over: each validated argument with
\* its rejected value and accepted ones.
AnyAmount == {0, 1, 2, U64_MAX}
AnyRecipient == {DefaultPubkey, 1}
AnyChain == ChainIds
AnySender == Pubkeys
AnyNonce == 1..(MAX_NONCES + 1)

\* acc holds exactly the current accounts, balances and event log.
Untouched(acc) ==
  /\ acc.mint_data = mint_data
  /\ acc.nonce_registry = nonce_registry
  /\ acc.trusted_remote = trusted_remote
  /\ acc.balances = balances
  /\ acc.events = events

IsReceived(e) == e.type = "CrossChainTransferReceived"
IsInitiated(e) == e.type = "CrossChainTransferInitiated"
IsMinted(e) == e.type = "TokensMinted"

\* C1: once the mint is initialized, 0 <= current_supply <= max_supply in
\* every reachable state, whatever mint_tokens, cross_chain_transfer and
\* receive_cross_chain_transfer calls were made.
C1_SupplyWithinMax ==
  mint_data.initialized =>
    /\ 0 <= mint_data.current_supply
    /\ mint_data.current_supply <= mint_data.max_supply

\* C1 witness: an inbound transfer has just brought the supply to the cap.
C1_Witness ==
  /\ mint_data.initialized
  /\ last.op = "receive_cross_chain_transfer" /\ last.result = "Ok"
  /\ mint_data.current_supply = mint_data.max_supply
  /\ \E i \in 1..Len(events) : IsMinted(events[i])

\* C2 (as claimed): over any sequence of operations on the asset,
\* receive_cross_chain_transfer succeeds at most once per nonce: no two
\* CrossChainTransferReceived events carry the same nonce (a second call
\* with an accepted nonce would have to fail with NonceAlreadyUsed).
C2_NonceAcceptedAtMostOnce ==
  \A i, j \in 1..Len(events) :
    (IsReceived(events[i]) /\ IsReceived(events[j])
       /\ events[i].nonce = events[j].nonce) => i = j

\* C3 (as claimed): a call of mint_tokens, cross_chain_transfer or
\* receive_cross_chain_transfer by a caller other than the authority fails
\* with InvalidAuthority whatever the other arguments are, and changes
\* nothing.
C3_NonAuthorityAlwaysInvalidAuthority ==
  mint_data.initialized =>
  \A caller \in Signers \ {mint_data.authority}, acct \in TokenAccounts,
     amount \in {0, 1, U64_MAX}, fault \in BOOLEAN :
    /\ LET r == Exec(Accounts, mint_tokens(Accounts, caller, acct, amount, fault))
       IN  r.result = "InvalidAuthority" /\ Untouched(r.acc)
    /\ \A chain \in {0, 1}, recipient \in AnyRecipient, nonce \in {1} :
         LET r == Exec(Accounts, cross_chain_transfer(Accounts, caller, acct, chain,
                                   recipient, amount, nonce, 1, fault))
         IN  r.result = "InvalidAuthority" /\ Untouched(r.acc)
    /\ \A chain \in {0, 1}, recipient \in AnyRecipient, sender \in {DefaultPubkey, 1},
          nonce \in {1}, registry \in RegistryAccounts, remote \in RemoteAccounts :
         LET r == Exec(Accounts, receive_cross_chain_transfer(Accounts, caller, registry,
                                   remote, acct, chain, sender, recipient, amount, nonce, fault))
         IN  r.result = "InvalidAuthority" /\ Untouched(r.acc)

\* C3 (amended): a call of mint_tokens, cross_chain_transfer or
\* receive_cross_chain_transfer by a caller other than the authority always
\* fails and changes nothing (supply, nonce registries, trusted remotes,
\* balances, event log); the error is InvalidAuthority when the argument
\* checks that precede the authority check pass (amount > 0, and for the
\* two transfers recipient and sender not the default key and chain id > 0),
\* and otherwise the error of the first of those checks that fails.
C3_NonAuthorityRejected ==
  mint_data.initialized =>
  \A caller \in Signers \ {mint_data.authority}, acct \in TokenAccounts,
     amount \in {0, 1, U64_MAX}, fault \in BOOLEAN :
    /\ LET r == Exec(Accounts, mint_tokens(Accounts, caller, acct, amount, fault))
       IN  /\ Untouched(r.acc)
           /\ r.result = IF amount = 0 THEN "InvalidAmount" ELSE "InvalidAuthority"
    /\ \A chain \in {0, 1}, recipient \in AnyRecipient, nonce \in {1} :
         LET r == Exec(Accounts, cross_chain_transfer(Accounts, caller, acct, chain,
                                   recipient, amount, nonce, 1, fault))
         IN  /\ Untouched(r.acc)
             /\ r.result = IF amount = 0 THEN "InvalidAmount"
                           ELSE IF recipient = DefaultPubkey THEN "InvalidRecipient"
                           ELSE IF chain = 0 THEN "InvalidChainId"
                           ELSE "InvalidAuthority"
    /\ \A chain \in {0, 1}, recipient \in AnyRecipient, sender \in {DefaultPubkey, 1},
          nonce \in {1}, registry \in RegistryAccounts, remote \in RemoteAccounts :
         LET r == Exec(Accounts, receive_cross_chain_transfer(Accounts, caller, registry,
                                   remote, acct, chain, sender, recipient, amount, nonce, fault))
         IN  /\ Untouched(r.acc)
             /\ r.result = IF amount = 0 THEN "InvalidAmount"
                           ELSE IF recipient = DefaultPubkey THEN "InvalidRecipient"
                           ELSE IF chain = 0 THEN "InvalidChainId"
                           ELSE IF sender = DefaultPubkey THEN "InvalidSender"
                           ELSE "InvalidAuthority"

\* C3 witness: an inbound transfer by a non-authority caller was rejected
\* with InvalidAuthority while tokens and a used nonce exist to be protected.
C3_Witness ==
  /\ last.op = "receive_cross_chain_transfer" /\ last.result = "InvalidAuthority"
  /\ mint_data.current_supply > 0
  /\ \E a \in RegistryAccounts : nonce_registry[a] # <<>>

\* An inbound transfer by the authority with arguments that pass the
\* argument checks, as the handler returns it (before the runtime commits
\* or drops its changes).
Inbound(registry, to, amount, nonce, fault) ==
  receive_cross_chain_transfer(Accounts, mint_data.authority, registry, NoRemote,
                               to, 1, 1, 1, amount, nonce, fault)

\* The handler marked the nonce and failed afterwards.
FailedAfterMark(h) == h.result # "Ok" /\ "mark_nonce_used" \in Range(h.acc.steps)

\* C4: a receive_cross_chain_transfer that fails after the nonce was marked
\* (ExceedsMaxSupply, or a failure of the ledger mint) leaves nothing behind:
\* the nonce is not in the registry, and supply, balances, event log and all
\* accounts equal their values before the call; the same call with a
\* working ledger then succeeds when the ledger was the cause.
C4_FailedInboundLeavesNoTrace ==
  mint_data.initialized =>
  \A registry \in RegistryAccounts, to \in {"tokA"}, amount \in {1, 2, U64_MAX},
     nonce \in AnyNonce, fault \in BOOLEAN :
    LET h == Inbound(registry, to, amount, nonce, fault)
        r == Exec(Accounts, h)
    IN  FailedAfterMark(h) =>
          /\ h.result \in {"ExceedsMaxSupply", "LedgerError"}
          /\ r.result = h.result
          /\ Untouched(r.acc)
          /\ ~is_nonce_used(r.acc.nonce_registry[registry], nonce)
          /\ h.result = "LedgerError" =>
               Exec(r.acc, receive_cross_chain_transfer(r.acc, mint_data.authority,
                      registry, NoRemote, to, 1, 1, 1, amount, nonce, FALSE)).result = "Ok"

\* C4 witness: the ledger mint of an inbound transfer failed after the nonce
\* was marked, and the registries are empty afterwards.
C4_Witness ==
  /\ last.op = "receive_cross_chain_transfer" /\ last.result = "LedgerError"
  /\ last.steps = <<"mark_nonce_used", "mint_to">>
  /\ \A a \in RegistryAccounts : nonce_registry[a] = <<>>

\* Number of CrossChainTransferReceived events in the log.
ReceivedCount == Cardinality({i \in 1..Len(events) : IsReceived(events[i])})

\* Number of nonces held by all registries together.
RECURSIVE MarkedCount(_)
MarkedCount(regs) ==
  IF regs = {} THEN 0
  ELSE LET a == CHOOSE x \in regs : TRUE
       IN  Len(nonce_registry[a]) + MarkedCount(regs \ {a})

\* C5 (as claimed): when marking succeeds and the supply check or the ledger
\* mint then fails, the nonce stays in the registry and a retry with the
\* same nonce fails with NonceAlreadyUsed.  After such a failed call the
\* registries would hold a nonce that no CrossChainTransferReceived event
\* accounts for, and the retry of any call that failed after marking would
\* be answered with NonceAlreadyUsed.
C5_NonceMarkSurvivesFailure ==
  (/\ last.op = "receive_cross_chain_transfer"
   /\ last.result \in {"ExceedsMaxSupply", "LedgerError"}
   /\ "mark_nonce_used" \in Range(last.steps)) =>
    /\ MarkedCount(RegistryAccounts) > ReceivedCount
    /\ \A registry \in RegistryAccounts, to \in {"tokA"}, amount \in {1, 2, U64_MAX},
          nonce \in AnyNonce, fault \in BOOLEAN :
         LET h == Inbound(registry, to, amount, nonce, fault)
             r == Exec(Accounts, h)
         IN  FailedAfterMark(h) =>
               /\ is_nonce_used(r.acc.nonce_registry[registry], nonce)
               /\ Exec(r.acc, receive_cross_chain_transfer(r.acc, mint_data.authority,
                      registry, NoRemote, to, 1, 1, 1, amount, nonce, fault)).result
                    = "NonceAlreadyUsed"

\* C5 (amended): when marking succeeds and the supply check or the ledger
\* mint then fails, the nonce mark is dropped with the rest of the failed
\* instruction: the registry holds exactly what it held before, and a retry
\* with the same nonce is not answered with NonceAlreadyUsed (it fails again
\* for the same cause, or succeeds).
C5_NonceMarkDroppedOnFailure ==
  mint_data.initialized =>
  \A registry \in RegistryAccounts, to \in {"tokA"}, amount \in {1, 2, U64_MAX},
     nonce \in AnyNonce, fault \in BOOLEAN :
    LET h == Inbound(registry, to, amount, nonce, fault)
        r == Exec(Accounts, h)
    IN  FailedAfterMark(h) =>
          /\ r.acc.nonce_registry = nonce_registry
          /\ \A retry_fault \in BOOLEAN :
               Exec(r.acc, receive_cross_chain_transfer(r.acc, mint_data.authority,
                      registry, NoRemote, to, 1, 1, 1, amount, nonce, retry_fault)).result
                 \in {"Ok", h.result, "LedgerError"} \ {"NonceAlreadyUsed"}

\* C5 witness: an inbound transfer marked its nonce and was then rejected
\* with ExceedsMaxSupply; the registry it used holds no nonce.
C5_Witness ==
  /\ last.op = "receive_cross_chain_transfer" /\ last.result = "ExceedsMaxSupply"
  /\ last.steps = <<"mark_nonce_used">>
  /\ mint_data.current_supply = mint_data.max_supply
  /\ \E a \in RegistryAccounts : nonce_registry[a] = <<>>

\* C6: in every execution of receive_cross_chain_transfer the ledger mint is
\* issued only after the nonce of the message was inserted into the registry
\* by the same execution (the nonce is in the working registry when the mint
\* is issued), and a successful inbound transfer has marked its nonce and
\* minted exactly its amount to the recipient account.
C6_MintOnlyAfterNonceMark ==
  /\ last.op = "receive_cross_chain_transfer" =>
       last.steps \in {<<>>, <<"mark_nonce_used">>, <<"mark_nonce_used", "mint_to">>}
  /\ mint_data.initialized =>
     \A caller \in Signers, registry \in RegistryAccounts, to \in {"tokA"},
        amount \in {0, 1, 2}, nonce \in AnyNonce, fault \in BOOLEAN :
       LET h == receive_cross_chain_transfer(Accounts, caller, registry, NoRemote,
                                             to, 1, 1, 1, amount, nonce, fault)
           r == Exec(Accounts, h)
       IN  /\ "mint_to" \in Range(h.acc.steps) =>
                /\ h.acc.steps = <<"mark_nonce_used", "mint_to">>
                /\ ~is_nonce_used(nonce_registry[registry], nonce)
                /\ is_nonce_used(h.acc.nonce_registry[registry], nonce)
           /\ r.result = "Ok" =>
                /\ h.acc.steps = <<"mark_nonce_used", "mint_to">>
                /\ r.acc.nonce_registry[registry] = Append(nonce_registry[registry], nonce)
                /\ r.acc.balances = [balances EXCEPT ![to] = @ + amount]

\* C6 witness: an inbound transfer succeeded, marking first and minting next.
C6_Witness ==
  /\ last.op = "receive_cross_chain_transfer" /\ last.result = "Ok"
  /\ last.steps = <<"mark_nonce_used", "mint_to">>
  /\ \E a \in RegistryAccounts : Len(nonce_registry[a]) = MAX_NONCES

RECURSIVE TotalBalance(_)
TotalBalance(accts) ==
  IF accts = {} THEN 0
  ELSE LET a == CHOOSE x \in accts : TRUE
       IN  balances[a] + TotalBalance(accts \ {a})

\* C7 (as claimed): a mint_tokens call by the authority with amount > 0
\* fails with ExceedsMaxSupply, changing nothing, when current_supply +
\* amount > max_supply, and otherwise succeeds and sets current_supply to
\* the old value plus amount.
C7_MintDecidedBySupplyCheckAlone ==
  /\ (last.op = "mint_tokens" /\ last.result \notin {"InvalidAmount", "InvalidAuthority"})
       => last.result \in {"ExceedsMaxSupply", "Ok"}
  /\ mint_data.initialized =>
     \A recipient \in TokenAccounts, amount \in AnyAmount \ {0}, fault \in BOOLEAN :
       LET r == Exec(Accounts, mint_tokens(Accounts, mint_data.authority, recipient, amount, fault))
       IN  IF mint_data.current_supply + amount > mint_data.max_supply
           THEN r.result = "ExceedsMaxSupply" /\ Untouched(r.acc)
           ELSE /\ r.result = "Ok"
                /\ r.acc.mint_data.current_supply = mint_data.current_supply + amount

\* C7 (amended): a mint_tokens call by the authority with amount > 0 fails
\* with ExceedsMaxSupply, changing nothing, when current_supply + amount >
\* max_supply; otherwise it succeeds and sets current_supply to the old
\* value plus amount if the ledger mint succeeds, and fails with the
\* ledger's error, changing nothing, if the ledger mint fails.
C7_MintDecidedBySupplyCheckAndLedger ==
  mint_data.initialized =>
  \A recipient \in TokenAccounts, amount \in AnyAmount \ {0}, fault \in BOOLEAN :
    LET r == Exec(Accounts, mint_tokens(Accounts, mint_data.authority, recipient, amount, fault))
    IN  IF mint_data.current_supply + amount > mint_data.max_supply
        THEN r.result = "ExceedsMaxSupply" /\ Untouched(r.acc)
        ELSE IF fault
        THEN r.result = "LedgerError" /\ Untouched(r.acc)
        ELSE /\ r.result = "Ok"
             /\ r.acc.mint_data.current_supply = mint_data.current_supply + amount
             /\ r.acc.balances = [balances EXCEPT ![recipient] = @ + amount]

\* C7 witness: a mint was rejected with ExceedsMaxSupply while part of the
\* cap was still free.
C7_Witness ==
  /\ last.op = "mint_tokens" /\ last.result = "ExceedsMaxSupply"
  /\ 0 < mint_data.current_supply
  /\ mint_data.current_supply < mint_data.max_supply

\* C8: a successful cross_chain_transfer(destination_chain, recipient,
\* amount, nonce) lowers current_supply by exactly amount, burns exactly
\* amount from the sender's balance and appends exactly one
\* CrossChainTransferInitiated event with source_chain 102 and the
\* destination_chain, recipient, amount and nonce of the call.
C8_OutboundTransferEffect ==
  mint_data.initialized =>
  \A caller \in Signers, sender \in TokenAccounts, destination_chain \in {0, 2},
     recipient \in AnyRecipient, amount \in AnyAmount, nonce \in {1, 2},
     timestamp \in {1, 2}, fault \in BOOLEAN :
    LET r == Exec(Accounts, cross_chain_transfer(Accounts, caller, sender,
                    destination_chain, recipient, amount, nonce, timestamp, fault))
    IN  r.result = "Ok" =>
          /\ r.acc.mint_data = [mint_data EXCEPT !.current_supply = @ - amount]
          /\ r.acc.balances = [balances EXCEPT ![sender] = @ - amount]
          /\ r.acc.events = Append(events,
                [type |-> "CrossChainTransferInitiated", source_chain |-> 102,
                 destination_chain |-> destination_chain, recipient |-> recipient,
                 amount |-> amount, nonce |-> nonce, timestamp |-> timestamp])
          /\ r.acc.nonce_registry = nonce_registry
          /\ r.acc.trusted_remote = trusted_remote

\* C8 witness: the whole supply was minted and then sent out.
C8_Witness ==
  /\ last.op = "cross_chain_transfer" /\ last.result = "Ok"
  /\ Len(events) = 2 /\ IsMinted(events[1]) /\ IsInitiated(events[2])
  /\ events[2].amount = events[1].amount /\ events[2].source_chain = 102
  /\ mint_data.current_supply = 0

\* C9: when the ledger burn of a cross_chain_transfer fails (an injected
\* ledger failure, or a sender balance smaller than amount) the call fails
\* with the ledger's error, supply and balances are unchanged and no event
\* is emitted; every call either burns amount and lowers the supply by
\* amount, or does neither; and the balances always add up to the supply.
C9_BurnAndSupplyMoveTogether ==
  /\ mint_data.initialized => TotalBalance(TokenAccounts) = mint_data.current_supply
  /\ mint_data.initialized =>
     \A caller \in Signers, sender \in TokenAccounts, destination_chain \in {0, 1},
        recipient \in AnyRecipient, amount \in AnyAmount, fault \in BOOLEAN :
       LET h == cross_chain_transfer(Accounts, caller, sender, destination_chain,
                                     recipient, amount, 1, 1, fault)
           r == Exec(Accounts, h)
       IN  /\ ("burn" \in Range(h.acc.steps) /\ (fault \/ balances[sender] < amount)) =>
                r.result = "LedgerError" /\ Untouched(r.acc)
           /\ \/ /\ r.acc.balances = [balances EXCEPT ![sender] = @ - amount]
                 /\ r.acc.mint_data.current_supply = mint_data.current_supply - amount
                 /\ Len(r.acc.events) = Len(events) + 1
              \/ Untouched(r.acc)

\* C9 witness: a transfer was refused by the ledger although the supply
\* would have covered it (the tokens sit in the other account).
C9_Witness ==
  /\ last.op = "cross_chain_transfer" /\ last.result = "LedgerError"
  /\ last.steps = <<"burn">>
  /\ mint_data.current_supply = mint_data.max_supply
  /\ \E a \in TokenAccounts : balances[a] = 0

\* address_length values that set_trusted_remote rejects.
BadAddressLengths == {0, 19, 21, 31, 33, 255}

\* C10 (as claimed): set_trusted_remote with address_length not in {20, 32}
\* fails with InvalidRecipient and creates or modifies no trusted-remote
\* entry, for every chain_id and every caller.
C10_BadLengthAlwaysInvalidRecipient ==
  mint_data.initialized =>
  \A caller \in Signers, chain_id \in ChainIds, address_length \in BadAddressLengths :
    LET r == Exec(Accounts, set_trusted_remote(Accounts, caller, chain_id, 7, address_length))
    IN  r.result = "InvalidRecipient" /\ r.acc.trusted_remote = trusted_remote

\* C10 (amended): set_trusted_remote with address_length not in {20, 32}
\* fails and creates or modifies no trusted-remote entry, for every chain_id
\* and every caller; the error is InvalidRecipient when chain_id > 0 and
\* InvalidChainId when chain_id = 0.
C10_BadLengthRejected ==
  mint_data.initialized =>
  \A caller \in Signers, chain_id \in ChainIds, address_length \in BadAddressLengths :
    LET r == Exec(Accounts, set_trusted_remote(Accounts, caller, chain_id, 7, address_length))
    IN  /\ r.result = IF chain_id > 0 THEN "InvalidRecipient" ELSE "InvalidChainId"
        /\ r.acc.trusted_remote = trusted_remote
        /\ Untouched(r.acc)

\* C10 witness: a set_trusted_remote for a chain without entry was rejected
\* with InvalidRecipient after the account had been created for it, and
\* an entry of another chain exists beside it.
C10_Witness ==
  /\ last.op = "set_trusted_remote" /\ last.result = "InvalidRecipient"
  /\ last.steps = <<"init_trusted_remote">>
  /\ \E c \in ChainIds : trusted_remote[c].exists
  /\ \E c \in ChainIds \ {0} : ~trusted_remote[c].exists

\* C11 (as claimed): when current_supply + amount would overflow the u64
\* range, mint_tokens and receive_cross_chain_transfer called by the
\* authority with valid arguments fail with SupplyOverflow and no other
\* error kind, and current_supply is left as it was (never wrapped, never
\* clamped).
C11_OverflowReportedAsSupplyOverflow ==
  mint_data.initialized =>
  \A amount \in AnyAmount \ {0}, fault \in BOOLEAN :
    mint_data.current_supply + amount > U64_MAX =>
      LET m == Exec(Accounts, mint_tokens(Accounts, mint_data.authority, "tokA", amount, fault))
          h == Exec(Accounts, receive_cross_chain_transfer(Accounts, mint_data.authority,
                      "regA", NoRemote, "tokA", 1, 1, 1, amount, MAX_NONCES + 1, fault))
      IN  /\ m.result = "SupplyOverflow"
          /\ m.acc.mint_data.current_supply = mint_data.current_supply
          /\ h.result = "SupplyOverflow"
          /\ h.acc.mint_data.current_supply = mint_data.current_supply

\* C12 (as claimed): cross_chain_transfer called by the authority with
\* valid arguments and amount > current_supply fails with SupplyUnderflow,
\* and current_supply, the balances and the event log are unchanged.
C12_BurnBeyondSupplyIsSupplyUnderflow ==
  mint_data.initialized =>
  \A sender \in TokenAccounts, amount \in AnyAmount \ {0} :
    amount > mint_data.current_supply =>
      LET r == Exec(Accounts, cross_chain_transfer(Accounts, mint_data.authority, sender,
                      1, 1, amount, 1, 1, FALSE))
      IN  r.result = "SupplyUnderflow" /\ Untouched(r.acc)

\* C12 (amended): such a call always fails and leaves current_supply, the
\* balances and the event log unchanged; the error is SupplyUnderflow when
\* the ledger burn succeeds (the sender account holds at least amount), and
\* the ledger's own error when the burn fails.
C12_BurnBeyondSupplyFails ==
  mint_data.initialized =>
  \A sender \in TokenAccounts, amount \in AnyAmount \ {0}, fault \in BOOLEAN :
    amount > mint_data.current_supply =>
      LET r == Exec(Accounts, cross_chain_transfer(Accounts, mint_data.authority, sender,
                      1, 1, amount, 1, 1, fault))
      IN  /\ r.result = IF fault \/ balances[sender] < amount
                        THEN "LedgerError" ELSE "SupplyUnderflow"
          /\ Untouched(r.acc)

\* C12 witness: the sender held more than the whole recorded supply, the
\* burn went through and the supply update failed with SupplyUnderflow.
C12_Witness ==
  /\ last.op = "cross_chain_transfer" /\ last.result = "SupplyUnderflow"
  /\ last.steps = <<"burn">>
  /\ balances["tokA"] > mint_data.current_supply
  /\ mint_data.current_supply > 0

\* C13: in every reachable state a nonce registry holds at most MAX_NONCES
\* nonces and holds no nonce twice.
C13_RegistryBoundedAndDuplicateFree ==
  \A a \in RegistryAccounts :
    /\ Len(nonce_registry[a]) <= MAX_NONCES
    /\ \A i, j \in 1..Len(nonce_registry[a]) :
         nonce_registry[a][i] = nonce_registry[a][j] => i = j

\* C13 witness: a registry holds MAX_NONCES nonces and an inbound transfer
\* with one more nonce has just been turned away with NonceRegistryFull.
C13_Witness ==
  /\ last.op = "receive_cross_chain_transfer" /\ last.result = "NonceRegistryFull"
  /\ \E a \in RegistryAccounts : Len(nonce_registry[a]) = MAX_NONCES

\* C14 (as claimed): the nonce registry only grows, and once a registry
\* holds MAX_NONCES nonces no receive_cross_chain_transfer succeeds any
\* more: an otherwise valid call by the authority fails with
\* NonceAlreadyUsed when its nonce is in that registry and with
\* NonceRegistryFull when it is fresh, and current_supply is unchanged.
C14_FullRegistryEndsInboundTransfers ==
  \A full \in RegistryAccounts :
    Len(nonce_registry[full]) = MAX_NONCES =>
      \A registry \in RegistryAccounts, nonce \in AnyNonce :
        LET h == Exec(Accounts, receive_cross_chain_transfer(Accounts, mint_data.authority,
                        registry, NoRemote, "tokA", 1, 1, 1, 1, nonce, FALSE))
        IN  /\ h.result # "Ok"
            /\ h.result = IF is_nonce_used(nonce_registry[full], nonce)
                          THEN "NonceAlreadyUsed" ELSE "NonceRegistryFull"
            /\ h.acc.mint_data.current_supply = mint_data.current_supply
            /\ \A a \in RegistryAccounts :
                 Range(nonce_registry[a]) \subseteq Range(h.acc.nonce_registry[a])

\* C15: when a trusted-remote entry is passed with the inbound message and
\* its chain_id differs from source_chain, receive_cross_chain_transfer by
\* the authority with otherwise valid arguments fails with InvalidChainId
\* and the nonce is not marked, current_supply is unchanged and nothing is
\* minted; when the chain ids match, or no entry is passed, the
\* trusted-remote step does not reject: the call gets to the nonce check
\* and ends as it does with no entry passed.
C15_TrustedRemoteChainCheck ==
  mint_data.initialized =>
  \A remote \in RemoteAccounts, source_chain \in ChainIds \ {0},
     sender \in Signers, nonce \in {1, 2} :
    LET h == Exec(Accounts, receive_cross_chain_transfer(Accounts, mint_data.authority,
                    "regA", remote, "tokA", source_chain, sender, 1, 1, nonce, FALSE))
        g == Exec(Accounts, receive_cross_chain_transfer(Accounts, mint_data.authority,
                    "regA", NoRemote, "tokA", source_chain, sender, 1, 1, nonce, FALSE))
    IN  IF remote.exists /\ remote.chain_id # source_chain
        THEN /\ h.result = "InvalidChainId"
             /\ Untouched(h.acc)
             /\ h.acc.steps = <<>>
        ELSE /\ h.result # "InvalidChainId"
             /\ h.result \in {"Ok", "NonceAlreadyUsed", "NonceRegistryFull", "ExceedsMaxSupply"}
             /\ h = g

\* C15 witness: an entry exists, and an inbound transfer has just been
\* rejected with InvalidChainId before any state-changing step (in these
\* runs source_chain is never 0, so the rejection is the entry's).
C15_Witness ==
  /\ last.op = "receive_cross_chain_transfer" /\ last.result = "InvalidChainId"
  /\ last.steps = <<>>
  /\ \E c \in ChainIds : trusted_remote[c].exists
  /\ nonce_registry["regA"] = <<>> /\ mint_data.current_supply = 0

\* C16: the claimed sender never influences an inbound transfer: two
\* receive_cross_chain_transfer calls from the same state that differ only
\* in their non-default sender, whatever trusted-remote entry is passed and
\* whatever remote_address it holds, have the same result and the same
\* resulting current_supply, nonce registry and ledger balances.
C16_SenderHasNoInfluence ==
  mint_data.initialized =>
  \A caller \in Signers, remote \in RemoteAccounts, source_chain \in ChainIds \ {0},
     s1, s2 \in Signers :
    LET h1 == Exec(Accounts, receive_cross_chain_transfer(Accounts, caller,
                     "regA", remote, "tokA", source_chain, s1, 1, 1, 1, FALSE))
        h2 == Exec(Accounts, receive_cross_chain_transfer(Accounts, caller,
                     "regA", remote, "tokA", source_chain, s2, 1, 1, 1, FALSE))
    IN  /\ h1.result = h2.result
        /\ h1.acc.mint_data = h2.acc.mint_data
        /\ h1.acc.nonce_registry = h2.acc.nonce_registry
        /\ h1.acc.balances = h2.acc.balances

\* C16 witness: an inbound transfer was accepted and minted from a sender
\* that is not the remote address configured for its source chain.
C16_Witness ==
  /\ last.op = "receive_cross_chain_transfer" /\ last.result = "Ok"
  /\ \E i \in 1..Len(events) :
       /\ IsReceived(events[i])
       /\ trusted_remote[events[i].source_chain].exists
       /\ trusted_remote[events[i].source_chain].remote_address # events[i].sender
  /\ mint_data.current_supply = 1 /\ balances["tokA"] = 1

\* C17: every trusted-remote entry present in a reachable state is stored
\* under the key equal to its own chain_id, has chain_id > 0 and
\* address_length 20 or 32, and only a successful set_trusted_remote by the
\* authority writes one: a set_trusted_remote by any other caller, and every
\* mint_tokens, cross_chain_transfer and receive_cross_chain_transfer call,
\* leaves every entry unchanged, and a successful set for one chain id
\* leaves the entries of all other chain ids unchanged.
C17_TrustedRemoteEntriesWellFormed ==
  /\ \A c \in ChainIds :
       trusted_remote[c].exists =>
         /\ trusted_remote[c].chain_id = c
         /\ c > 0
         /\ trusted_remote[c].address_length \in {20, 32}
  /\ mint_data.initialized =>
     \A caller \in Signers, chain_id \in ChainIds, address_length \in {0, 20, 32} :
       LET s == Exec(Accounts, set_trusted_remote(Accounts, caller, chain_id, 2, address_length))
           m == Exec(Accounts, mint_tokens(Accounts, caller, "tokA", 1, FALSE))
           t == Exec(Accounts, cross_chain_transfer(Accounts, caller, "tokA", chain_id, 1, 1, 1, 1, FALSE))
       IN  /\ caller # mint_data.authority =>
                s.result # "Ok" /\ s.acc.trusted_remote = trusted_remote
           /\ s.result # "Ok" => s.acc.trusted_remote = trusted_remote
           /\ s.result = "Ok" =>
                /\ caller = mint_data.authority
                /\ s.acc.trusted_remote[chain_id] =
                     [exists |-> TRUE, chain_id |-> chain_id, remote_address |-> 2,
                      address_length |-> address_length]
                /\ \A c \in ChainIds \ {chain_id} :
                     s.acc.trusted_remote[c] = trusted_remote[c]
           /\ m.acc.trusted_remote = trusted_remote
           /\ t.acc.trusted_remote = trusted_remote
           /\ \A remote \in RemoteAccounts :
                LET h == Exec(Accounts, receive_cross_chain_transfer(Accounts, caller,
                                "regA", remote, "tokA", 1, 1, 1, 1, 1, FALSE))
                IN  h.acc.trusted_remote = trusted_remote

\* C17 witness: entries for two chains exist with different lengths, the
\* second was just written by set_trusted_remote creating its account, and
\* an inbound transfer had been accepted in between.
C17_Witness ==
  /\ last.op = "set_trusted_remote" /\ last.result = "Ok"
  /\ last.steps = <<"init_trusted_remote">>
  /\ trusted_remote[1].exists /\ trusted_remote[2].exists
  /\ trusted_remote[1].address_length # trusted_remote[2].address_length
  /\ mint_data.current_supply > 0

\* C18: after a successful initialize_mint, max_supply, authority and
\* decimals keep the values given at initialization in every later state:
\* no instruction changes them, and an initialize_mint on the initialized
\* asset is rejected.
C18_MintParametersImmutable ==
  [][mint_data.initialized =>
       /\ mint_data'.initialized
       /\ mint_data'.max_supply = mint_data.max_supply
       /\ mint_data'.authority = mint_data.authority
       /\ mint_data'.decimals = mint_data.decimals
       /\ last'.op = "initialize_mint" =>
            last'.result = "AccountAlreadyInUse" /\ mint_data' = mint_data]_vars

\* C18 witness: a second initialize_mint was rejected on an asset that has
\* tokens in circulation and a trusted remote configured.
C18_Witness ==
  /\ last.op = "initialize_mint" /\ last.result = "AccountAlreadyInUse"
  /\ mint_data.initialized /\ mint_data.current_supply > 0
  /\ mint_data.authority = 2
  /\ \E c \in ChainIds : trusted_remote[c].exists

\* The supply the event log accounts for: amounts minted and received,
\* less amounts sent out.
RECURSIVE SupplyFromEvents(_)
SupplyFromEvents(evs) ==
  IF evs = <<>> THEN 0
  ELSE LET e == evs[Len(evs)] IN
       SupplyFromEvents(SubSeq(evs, 1, Len(evs) - 1))
         + (IF IsInitiated(e) THEN 0 - e.amount ELSE e.amount)

\* C19: current_supply equals the sum of the amounts of all TokensMinted
\* and CrossChainTransferReceived events less the sum of the amounts of all
\* CrossChainTransferInitiated events; with the ledger changed only through
\* this program it equals the total of the ledger balances; and each
\* TokensMinted event's new_supply is current_supply right after that mint.
C19_SupplyMatchesEventLog ==
  /\ mint_data.current_supply = SupplyFromEvents(events)
  /\ TotalBalance(TokenAccounts) = SupplyFromEvents(events)
  /\ \A i \in 1..Len(events) :
       IsMinted(events[i]) =>
         events[i].new_supply = SupplyFromEvents(SubSeq(events, 1, i))
  /\ (last.op = "mint_tokens" /\ last.result = "Ok") =>
       /\ Len(events) > 0 /\ IsMinted(events[Len(events)])
       /\ events[Len(events)].new_supply = mint_data.current_supply

\* C19 witness: tokens were minted and then part of them sent out, so the
\* log holds an addition and a subtraction and the supply is their balance.
C19_Witness ==
  /\ Len(events) = 2
  /\ IsMinted(events[1]) /\ IsInitiated(events[2])
  /\ last.op = "cross_chain_transfer" /\ last.result = "Ok"
  /\ mint_data.current_supply = events[1].amount - events[2].amount
  /\ mint_data.current_supply > 0

\* C20 (as claimed): the nonce registry and the inbound event log stay in
\* one-to-one correspondence: the set of nonces in the registry equals the
\* set of nonces of the CrossChainTransferReceived events, each such nonce
\* has exactly one event, and mint_tokens, cross_chain_transfer and
\* set_trusted_remote leave the registry unchanged.
C20_RegistryMatchesReceivedEvents ==
  /\ UNION {Range(nonce_registry[a]) : a \in RegistryAccounts}
       = {events[i].nonce : i \in {j \in 1..Len(events) : IsReceived(events[j])}}
  /\ \A n \in AnyNonce :
       (\E a \in RegistryAccounts : is_nonce_used(nonce_registry[a], n)) =>
         Cardinality({i \in 1..Len(events) :
                        IsReceived(events[i]) /\ events[i].nonce = n}) = 1
  /\ mint_data.initialized =>
     \A nonce \in AnyNonce :
       LET m == Exec(Accounts, mint_tokens(Accounts, mint_data.authority, "tokA", 1, FALSE))
           t == Exec(Accounts, cross_chain_transfer(Accounts, mint_data.authority, "tokA",
                       1, 1, 1, nonce, 1, FALSE))
           s == Exec(Accounts, set_trusted_remote(Accounts, mint_data.authority, 1, 7, 20))
       IN  /\ m.acc.nonce_registry = nonce_registry
           /\ t.acc.nonce_registry = nonce_registry
           /\ s.acc.nonce_registry = nonce_registry

====
